---- MODULE Spec2Model ----
(***************************************************************************)
(* A model of acme.rs: the client of the acme editor's file interface.     *)
(*                                                                         *)
(* Bytes are the naturals 0..255, characters are Unicode code points, a    *)
(* byte string or a text is a tuple of them.  The event file is a byte     *)
(* stream the editor wrote; IOERR in it stands for a read the file service *)
(* answers with an error.                                                  *)
(*                                                                         *)
(* A number of the event protocol is a pair <<hi, lo>> standing for        *)
(* hi * 2^16 + lo with lo < 2^16: a u32 is a pair with hi < 2^16, and the  *)
(* decimal numbers of the wire, which have no width, are pairs with any    *)
(* hi.  (TLC evaluates integers below 2^31 only.)                          *)
(***************************************************************************)
EXTENDS Integers, Sequences, FiniteSets, TLC

VARIABLES
    checks,     \* build profile: TRUE = overflow checks on (debug), FALSE = wrapping (release)
    wins,       \* the editor: ids of the windows that exist
    wpc,        \* position of the caller in Win::new / Win::open
    locked,     \* the FSYS mutex guard is held
    held,       \* handles open and not yet released
    released,   \* handles released
    ctlh,       \* Win::new's `fid` / Win::open's `ctl`
    idv,        \* Win::new's `id` / Win::open's `id`
    opened,     \* Win::open's locals body, addr, data, tag, in opening order
    win,        \* the Win value returned, or NoWin
    feed,       \* who filled the event file: "none", "editor", "loopback"
    recs,       \* the well-formed raw records the editor put on the event file
    tail,       \* what follows them on the event file
    stream,     \* the bytes of the event file
    pos,        \* bytes read so far from the event fid
    pc,         \* position of the caller in read_event
    e,          \* read_event's `e`
    e3,         \* read_event's `e3`
    ngets,      \* get_event calls that returned Ok in the current read_event
    err,        \* the message of the Err the last call returned, "" if none
    wev,        \* the Event last given to write_event
    written,    \* the bytes write_event last wrote to the event fid
    op,         \* the last operation called on the Win or on an Event, with its arguments
    calls,      \* the calls that operation made on Fids, in order
    tprog,      \* FSYS: the function each thread runs
    tpc,        \* FSYS: the instructions each thread has left to run
    guard,      \* FSYS: the thread that holds the MutexGuard, 0 if none
    inopen,     \* FSYS: the threads inside Fsys::open
    lockio      \* FSYS: the reads done on a Fid by a thread holding the MutexGuard

evars == <<feed, recs, tail, stream, pos, pc, e, e3, ngets, err, wev, written>>
wvars == <<wins, wpc, locked, held, released, ctlh, idv, opened, win>>
ovars == <<op, calls>>
lvars == <<tprog, tpc, guard, inopen, lockio>>
vars == <<checks, wins, wpc, locked, held, released, ctlh, idv, opened, win,
          feed, recs, tail, stream, pos, pc, e, e3, ngets, err, wev, written,
          op, calls, tprog, tpc, guard, inopen, lockio>>

----------------------------------------------------------------------------
(* Characters and integers of the source *)

SP == 32
NL == 10
CH_0 == 48
CH_9 == 57
EVENT_SIZE == 256
LIMB == 65536
IOERR == 0 - 1

NoEvent == [none |-> TRUE]
NoHandle == [none |-> TRUE]
NoWin == [none |-> TRUE]

\* the number n < 2^31 as a pair
W(n) == <<n \div LIMB, n % LIMB>>

\* the number k * 2^32 + n
Big(k, n) == <<k * LIMB + (n \div LIMB), n % LIMB>>

\* u32::MAX
U32Max == <<LIMB - 1, LIMB - 1>>

\* v * 10 + d, unbounded
Mul10Add(v, d) == LET lo == v[2] * 10 + d IN <<v[1] * 10 + (lo \div LIMB), lo % LIMB>>

\* v is a value of u32; v modulo 2^32
Fits32(v) == v[1] < LIMB
Wrap32(v) == <<v[1] % LIMB, v[2]>>

\* v > n for n < 2^16
Above(v, n) == v[1] > 0 \/ v[2] > n

\* `v & bit != 0` for a power of two bit < 2^16
BitSet(v, bit) == (v[2] \div bit) % 2 = 1

Div10(v) == <<v[1] \div 10, ((v[1] % 10) * LIMB + v[2]) \div 10>>
Mod10(v) == ((v[1] % 10) * LIMB + v[2]) % 10

RECURSIVE Dec(_)
\* Display of an unsigned integer: its decimal digits, no padding
Dec(v) ==
    IF v[1] = 0 /\ v[2] < 10 THEN <<CH_0 + v[2]>>
    ELSE Dec(Div10(v)) \o <<CH_0 + Mod10(v)>>

\* Display of a char: its UTF-8 encoding
Utf8(cp) ==
    IF cp < 128 THEN <<cp>>
    ELSE IF cp < 2048 THEN <<192 + (cp \div 64), 128 + (cp % 64)>>
    ELSE IF cp < 65536 THEN
        <<224 + (cp \div 4096), 128 + ((cp \div 64) % 64), 128 + (cp % 64)>>
    ELSE <<240 + (cp \div 262144), 128 + ((cp \div 4096) % 64),
           128 + ((cp \div 64) % 64), 128 + (cp % 64)>>

RECURSIVE Utf8Str(_)
\* the bytes of a String holding the characters t
Utf8Str(t) ==
    IF t = <<>> THEN <<>>
    ELSE IF Len(t) = 1 THEN Utf8(t[1])
    ELSE LET h == Len(t) \div 2 IN
        Utf8Str(SubSeq(t, 1, h)) \o Utf8Str(SubSeq(t, h + 1, Len(t)))

----------------------------------------------------------------------------
(* WinEvents: the decoder *)

\* get_ch: one byte of the event fid as a char, Err at end of input or on a
\* failed read
get_ch(s, p) ==
    IF p >= Len(s) THEN [st |-> "err", msg |-> "expected another character", pos |-> p]
    ELSE IF s[p + 1] = IOERR THEN [st |-> "err", msg |-> "transport", pos |-> p]
    ELSE [st |-> "ok", c |-> s[p + 1], pos |-> p + 1]

\* get_en without its check of the character that ends the digits
IsSep_Unchecked(c) == TRUE

\* c is the space that ends a number
IsSep(c) == c = SP

\* get_event without its check of the count
TooLong_Unchecked(nr) == FALSE

\* nr > EVENT_SIZE
TooLong(nr) == Above(nr, EVENT_SIZE)

RECURSIVE get_en_loop(_, _, _, _)
\* the loop of get_en with n the value so far; chk: overflow checks are on
get_en_loop(s, p, n, chk) ==
    LET r == get_ch(s, p) IN
    IF r.st # "ok" THEN r
    ELSE IF r.c < CH_0 \/ r.c > CH_9 THEN
        IF ~IsSep(r.c) THEN [st |-> "err", msg |-> "event number syntax", pos |-> r.pos]
        ELSE [st |-> "ok", n |-> n, pos |-> r.pos]
    ELSE LET m == Mul10Add(n, r.c - CH_0) IN
        IF ~Fits32(m) THEN
            IF chk THEN [st |-> "panic", msg |-> "arithmetic overflow", pos |-> r.pos]
            ELSE get_en_loop(s, r.pos, Wrap32(m), chk)
        ELSE get_en_loop(s, r.pos, m, chk)

get_en(s, p, chk) == get_en_loop(s, p, W(0), chk)

\* the loop that fills text with nr chars: it ends at the first get_ch
\* that is not Ok, or with the nr chars after p
get_text(s, p, nr) ==
    LET bad == {i \in 1..nr : get_ch(s, p + i - 1).st # "ok"} IN
    IF bad # {} THEN get_ch(s, p + (CHOOSE i \in bad : \A j \in bad : i <= j) - 1)
    ELSE [st |-> "ok", text |-> [i \in 1..nr |-> get_ch(s, p + i - 1).c], pos |-> p + nr]

MkEvent(c1, c2, q0, q1, flag, nr, text) ==
    [c1 |-> c1, c2 |-> c2, q0 |-> q0, q1 |-> q1, flag |-> flag, nr |-> nr,
     text |-> text, orig_q0 |-> q0, orig_q1 |-> q1, arg |-> <<>>, loc |-> <<>>]

\* get_event: the base decode of one raw record starting at byte p
get_event(s, p, chk) ==
    LET c1 == get_ch(s, p) IN
    IF c1.st # "ok" THEN c1 ELSE
    LET c2 == get_ch(s, c1.pos) IN
    IF c2.st # "ok" THEN c2 ELSE
    LET q0 == get_en(s, c2.pos, chk) IN
    IF q0.st # "ok" THEN q0 ELSE
    LET q1 == get_en(s, q0.pos, chk) IN
    IF q1.st # "ok" THEN q1 ELSE
    LET flag == get_en(s, q1.pos, chk) IN
    IF flag.st # "ok" THEN flag ELSE
    LET nr == get_en(s, flag.pos, chk) IN
    IF nr.st # "ok" THEN nr ELSE
    IF TooLong(nr.n) THEN
        [st |-> "err", msg |-> "event size too long", pos |-> nr.pos] ELSE
    LET text == get_text(s, nr.pos, nr.n[2]) IN
    IF text.st # "ok" THEN text ELSE
    LET nl == get_ch(s, text.pos) IN
    IF nl.st # "ok" THEN nl ELSE
    IF nl.c # NL THEN [st |-> "err", msg |-> "phase error", pos |-> nl.pos] ELSE
    [st |-> "ok", pos |-> nl.pos,
     ev |-> MkEvent(c1.c, c2.c, q0.n, q1.n, flag.n, nr.n, text.text)]

\* write_event: the bytes of format!("{}{}{} {} \n", c1, c2, q0, q1)
EventBytes(ev) ==
    Utf8(ev.c1) \o Utf8(ev.c2) \o Dec(ev.q0) \o <<SP>> \o Dec(ev.q1) \o <<SP, NL>>

----------------------------------------------------------------------------
(* The editor's side of the event file: raw records and their bytes *)

\* A raw record as the editor writes it: nr is the count field, seps the
\* bytes after the four numbers, term the byte after the text.
Raw(c1, c2, q0, q1, flag, nr, text, seps, term) ==
    [c1 |-> c1, c2 |-> c2, q0 |-> q0, q1 |-> q1, flag |-> flag, nr |-> nr,
     text |-> text, seps |-> seps, term |-> term]

\* A well-formed raw record: the count is the number of characters of text
Rec(c1, c2, q0, q1, flag, text) ==
    Raw(c1, c2, q0, q1, flag, W(Len(text)), text, <<SP, SP, SP, SP>>, NL)

\* the bytes of the first k fields of raw record r, k in 0..4, with their
\* separators
Fields(r, k) ==
    LET num == <<r.q0, r.q1, r.flag, r.nr>>
        F[i \in 0..4] == IF i = 0 THEN Utf8(r.c1) \o Utf8(r.c2)
                         ELSE F[i - 1] \o Dec(num[i]) \o <<r.seps[i]>>
    IN F[k]

Wire(r) == Fields(r, 4) \o Utf8Str(r.text) \o <<r.term>>

RECURSIVE WireAll(_)
WireAll(rs) == IF rs = <<>> THEN <<>> ELSE Wire(Head(rs)) \o WireAll(Tail(rs))

\* byte offset in the stream of the end of the first k well-formed records
Off(k) == Len(WireAll(SubSeq(recs, 1, k)))

----------------------------------------------------------------------------
(* Bounded inputs *)

\* most well-formed records on the event file
MaxRecs == 4

Blah == <<98, 108, 97, 104>>
Ab == <<97, 98>>
Cde == <<99, 100, 101>>
EAcute == <<233>>
Full == [i \in 1..EVENT_SIZE |-> 97]

\* candidates for the first record: every combination of the flag bits 2
\* and 8 with start = end and start # end, other flag bits, a text of
\* EVENT_SIZE characters, a non-ASCII text, numbers of more than 32 bits
FirstRecs ==
    { Rec(69, 88, W(10), W(10), W(0), Blah),
      Rec(69, 120, W(3), W(7), W(0), <<>>),
      Rec(77, 76, W(3), W(7), W(1), Ab),
      Rec(77, 108, W(5), W(5), W(2), <<>>),
      Rec(69, 88, W(3), W(7), W(2), Ab),
      Rec(77, 88, W(5), W(5), W(3), Ab),
      Rec(69, 88, W(5), W(5), W(8), Ab),
      Rec(77, 120, W(3), W(7), W(9), <<>>),
      Rec(69, 88, W(5), W(5), W(10), Ab),
      Rec(77, 88, W(3), W(7), W(10), Ab),
      Rec(69, 88, W(0), W(0), W(0), Full),
      Rec(69, 88, W(3), W(7), W(0), EAcute),
      Rec(69, 88, Big(1, 1), W(7), W(0), <<>>),
      Rec(69, 88, W(5), W(5), Big(1, 2), Ab) }

\* candidates for the records after the first
NextRecs ==
    { Rec(75, 73, W(1), W(2), W(8), Cde),
      Rec(77, 108, W(4), W(4), W(2), <<122>>) }

RECURSIVE SeqsUpTo(_, _)
\* the sequences over S of length at most n
SeqsUpTo(S, n) ==
    IF n = 0 THEN {<<>>}
    ELSE LET T == SeqsUpTo(S, n - 1) IN T \cup {Append(t, x) : t \in T, x \in S}

RecSeqs ==
    {<<>>} \cup {<<r>> \o t : r \in FirstRecs, t \in SeqsUpTo(NextRecs, MaxRecs - 1)}

CutRec == Rec(69, 88, W(1), W(2), W(0), <<97>>)

NoTail == [kind |-> "none", bytes |-> <<>>]
BadTail(kind, r) == [kind |-> kind, bytes |-> Wire(r), raw |-> r]

\* what can follow the well-formed records: nothing, a record cut short by
\* the end of input or by a failed read, a number not followed by a space,
\* a count above EVENT_SIZE, a text longer than its count
Tails ==
    {NoTail}
    \cup {[kind |-> "cut", bytes |-> SubSeq(Wire(CutRec), 1, k)] : k \in 1..(Len(Wire(CutRec)) - 1)}
    \cup {[kind |-> "ioerr", bytes |-> SubSeq(Wire(CutRec), 1, k) \o <<IOERR>>] : k \in {0, 6}}
    \cup {BadTail("badsep", Raw(69, 88, W(1), W(20), W(0), W(2), Ab,
                               [i \in 1..4 |-> IF i = k THEN b ELSE SP], NL))
            : k \in 1..4, b \in {NL, CH_0 - 1, CH_9 + 1}}
    \cup {BadTail("badsep", Raw(69, 88, Big(1, 1), W(20), W(0), W(2), Ab,
                               <<CH_9 + 1, SP, SP, SP>>, NL))}
    \cup {BadTail("oversize", Raw(69, 88, W(1), W(2), W(0), W(n), Ab, <<SP, SP, SP, SP>>, NL))
            : n \in {EVENT_SIZE + 1, LIMB}}
    \cup {BadTail("wrapped", Raw(69, 88, W(1), W(2), W(0), Big(1, 2), Ab, <<SP, SP, SP, SP>>, NL))}
    \cup {BadTail("phase", Raw(69, 88, W(1), W(2), W(0), W(1), Ab, <<SP, SP, SP, SP>>, NL))}

\* the Events a caller hands to write_event without having read them
SampleEvents ==
    { [MkEvent(c1, c2, q0, q1, W(3), W(2), Ab) EXCEPT !.arg = Cde]
        : c1 \in {69, 233, 8364}, c2 \in {88, 49, 32},
          q0 \in {W(0), W(10), U32Max}, q1 \in {W(10), U32Max} }

----------------------------------------------------------------------------
(* WinEvents::read_event and WinEvents::write_event, one step per call of
   get_event or write *)

\* e.flag & 2 != 0
WantsExpansion(ev) == BitSet(ev.flag, 2)

\* e.flag & 8 != 0 taken for e.flag & 2 != 0
WantsChord_Bit2(ev) == BitSet(ev.flag, 2)

\* e.flag & 8 != 0
WantsChord(ev) == BitSet(ev.flag, 8)

\* the expansion block without `e2.flag = e.flag`
Expand_KeepFlag(ev, ev2) ==
    IF ev.q0 = ev.q1
    THEN [ev2 EXCEPT !.orig_q0 = ev.q0, !.orig_q1 = ev.q1]
    ELSE ev

\* the expansion block replacing `e` whatever its addresses
Expand_Always(ev, ev2) ==
    [ev2 EXCEPT !.orig_q0 = ev.q0, !.orig_q1 = ev.q1, !.flag = ev.flag]

\* the expansion block without `e2.orig_q0 = e.q0; e2.orig_q1 = e.q1`
Expand_KeepOrig(ev, ev2) ==
    IF ev.q0 = ev.q1 THEN [ev2 EXCEPT !.flag = ev.flag] ELSE ev

\* the value of `e` after the expansion block, e2 being the second record
Expand(ev, ev2) ==
    IF ev.q0 = ev.q1
    THEN [ev2 EXCEPT !.orig_q0 = ev.q0, !.orig_q1 = ev.q1, !.flag = ev.flag]
    ELSE ev

\* the chorded-argument block with arg and loc exchanged
Chord_Swapped(ev, ev3, ev4) == [ev EXCEPT !.arg = ev4.text, !.loc = ev3.text]

\* the value of `e` after the chorded-argument block
Chord(ev, ev3, ev4) == [ev EXCEPT !.arg = ev3.text, !.loc = ev4.text]

\* where read_event goes once `e` holds the expanded event
AfterExpansion(ev) == IF WantsChord(ev) THEN "chorded_arg" ELSE "ok"

\* the first get_event followed by the expansion block whatever the flag
AfterFirst_Always(ev) == "expansion"

\* where read_event goes after the first get_event
AfterFirst(ev) == IF WantsExpansion(ev) THEN "expansion" ELSE AfterExpansion(ev)

\* `?` taken for a return of what read_event has assembled so far
Propagate_KeepEvent(r) ==
    /\ pc' = r.st
    /\ err' = r.msg
    /\ pos' = r.pos
    /\ UNCHANGED <<e, e3, ngets>>

\* `?` on a call that did not return Ok: read_event ends with that Err (or
\* unwinds with that panic), its locals are gone
Propagate(r) ==
    /\ pc' = r.st
    /\ err' = r.msg
    /\ pos' = r.pos
    /\ e' = NoEvent
    /\ e3' = NoEvent
    /\ UNCHANGED ngets

\* the editor puts records on the event file
Feed ==
    /\ pc = "idle" /\ feed = "none"
    /\ \E rs \in RecSeqs, t \in Tails :
        /\ recs' = rs
        /\ tail' = t
        /\ stream' = WireAll(rs) \o t.bytes
    /\ feed' = "editor"
    /\ UNCHANGED <<checks, wvars, pos, pc, e, e3, ngets, err, wev, written>>
    /\ UNCHANGED <<ovars, lvars>>

\* let mut e = self.get_event()?;
ReadFirst ==
    /\ pc = "idle" /\ feed # "none"
    /\ LET r == get_event(stream, pos, checks) IN
        IF r.st # "ok" THEN Propagate(r)
        ELSE /\ e' = r.ev
             /\ pos' = r.pos
             /\ ngets' = 1
             /\ pc' = AfterFirst(r.ev)
             /\ UNCHANGED <<e3, err>>
    /\ UNCHANGED <<checks, wvars, feed, recs, tail, stream, wev, written>>
    /\ UNCHANGED <<ovars, lvars>>

\* the expansion block
ReadExpansion ==
    /\ pc = "expansion"
    /\ LET r == get_event(stream, pos, checks) IN
        IF r.st # "ok" THEN Propagate(r)
        ELSE /\ e' = Expand(e, r.ev)
             /\ pos' = r.pos
             /\ ngets' = ngets + 1
             /\ pc' = AfterExpansion(Expand(e, r.ev))
             /\ UNCHANGED <<e3, err>>
    /\ UNCHANGED <<checks, wvars, feed, recs, tail, stream, wev, written>>
    /\ UNCHANGED <<ovars, lvars>>

\* let e3 = self.get_event()?;
ReadChordArg ==
    /\ pc = "chorded_arg"
    /\ LET r == get_event(stream, pos, checks) IN
        IF r.st # "ok" THEN Propagate(r)
        ELSE /\ e3' = r.ev
             /\ pos' = r.pos
             /\ ngets' = ngets + 1
             /\ pc' = "chorded_loc"
             /\ UNCHANGED <<e, err>>
    /\ UNCHANGED <<checks, wvars, feed, recs, tail, stream, wev, written>>
    /\ UNCHANGED <<ovars, lvars>>

\* let e4 = self.get_event()?; e.arg = e3.text; e.loc = e4.text; Ok(e)
ReadChordLoc ==
    /\ pc = "chorded_loc"
    /\ LET r == get_event(stream, pos, checks) IN
        IF r.st # "ok" THEN Propagate(r)
        ELSE /\ e' = Chord(e, e3, r.ev)
             /\ e3' = NoEvent
             /\ pos' = r.pos
             /\ ngets' = ngets + 1
             /\ pc' = "ok"
             /\ UNCHANGED err
    /\ UNCHANGED <<checks, wvars, feed, recs, tail, stream, wev, written>>
    /\ UNCHANGED <<ovars, lvars>>

\* write_event(ev), ev an Event of the caller's or the one read_event just
\* returned from a record that came back; the write can fail
WriteEvent ==
    /\ \E ev \in (IF pc = "idle" /\ feed = "none" THEN SampleEvents
                   ELSE IF pc = "ok" /\ feed = "loopback" THEN {e} ELSE {}) :
        /\ wev' = ev
        /\ \/ written' = EventBytes(ev) /\ pc' = "wrote" /\ err' = ""
           \/ written' = <<>> /\ pc' = "werr" /\ err' = "transport"
    /\ e' = NoEvent
    /\ UNCHANGED <<checks, wvars, feed, recs, tail, stream, pos, e3, ngets>>
    /\ UNCHANGED <<ovars, lvars>>

\* the bytes write_event wrote, completed into a raw record with flag 0 and
\* count 0
Complete(w) ==
    SubSeq(w, 1, Len(w) - 1) \o Dec(W(0)) \o <<SP>> \o Dec(W(0)) \o <<SP, NL>>

\* that record comes back on the event file
Loopback ==
    /\ pc = "wrote"
    /\ feed' = "loopback"
    /\ stream' = Complete(written)
    /\ recs' = <<>>
    /\ tail' = NoTail
    /\ pos' = 0
    /\ ngets' = 0
    /\ pc' = "idle"
    /\ UNCHANGED <<checks, wvars, e, e3, err, wev, written>>
    /\ UNCHANGED <<ovars, lvars>>

----------------------------------------------------------------------------
(* Win::new and Win::open, one step per call of the file service *)

\* most windows the editor holds
MaxId == 3
Ids == 1..MaxId

\* let mut buf = [0; 100];
CTL_BUF == 100

\* an open Fid: the path dir/file it was opened at and the window it is
\* bound to
H(dir, file, w) == [dir |-> dir, file |-> file, w |-> w]

Range(f) == {f[i] : i \in DOMAIN f}

\* String::from_utf8 succeeds on b
RECURSIVE IsUtf8(_)
IsUtf8(b) ==
    IF b = <<>> THEN TRUE
    ELSE LET c == b[1]
             Cont(i, lo, hi) == Len(b) >= i /\ b[i] >= lo /\ b[i] <= hi
             Rest(n) == IsUtf8(SubSeq(b, n + 1, Len(b)))
         IN IF c < 128 THEN Rest(1)
            ELSE IF c >= 194 /\ c <= 223 THEN Cont(2, 128, 191) /\ Rest(2)
            ELSE IF c >= 224 /\ c <= 239 THEN
                /\ Cont(2, IF c = 224 THEN 160 ELSE 128, IF c = 237 THEN 159 ELSE 191)
                /\ Cont(3, 128, 191) /\ Rest(3)
            ELSE IF c >= 240 /\ c <= 244 THEN
                /\ Cont(2, IF c = 240 THEN 144 ELSE 128, IF c = 244 THEN 143 ELSE 191)
                /\ Cont(3, 128, 191) /\ Cont(4, 128, 191) /\ Rest(4)
            ELSE FALSE

\* the white space split_whitespace splits at, among the characters below 128
IsSpace(c) == c \in {9, 10, 11, 12, 13, 32}

RECURSIVE SkipSpace(_)
SkipSpace(b) == IF b # <<>> /\ IsSpace(b[1]) THEN SkipSpace(Tail(b)) ELSE b

RECURSIVE TakeToken(_)
TakeToken(b) ==
    IF b = <<>> \/ IsSpace(b[1]) THEN <<>> ELSE <<b[1]>> \o TakeToken(Tail(b))

\* sp[0] of data.split_whitespace(), <<>> when sp is empty
FirstToken(b) == TakeToken(SkipSpace(b))

RECURSIVE DigitsValue(_, _)
\* the value of a run of decimal digits after the value n, -1 if it has
\* another character
DigitsValue(b, n) ==
    IF b = <<>> THEN n
    ELSE IF b[1] < CH_0 \/ b[1] > CH_9 THEN 0 - 1
    ELSE DigitsValue(Tail(b), n * 10 + (b[1] - CH_0))

\* str::parse::<usize>: an optional + and at least one digit; -1 for Err
ParseUsize(tok) ==
    LET d == IF tok # <<>> /\ tok[1] = 43 THEN Tail(tok) ELSE tok IN
    IF d = <<>> THEN 0 - 1 ELSE DigitsValue(d, 0)

\* Win::new from the read of new/ctl to the parse of the id
ParseNew(reply) ==
    IF reply # <<>> /\ reply[1] = IOERR THEN [st |-> "err", msg |-> "transport"]
    ELSE LET data == SubSeq(reply, 1, IF Len(reply) < CTL_BUF THEN Len(reply) ELSE CTL_BUF) IN
        IF ~IsUtf8(data) THEN [st |-> "err", msg |-> "invalid utf-8"]
        ELSE IF FirstToken(data) = <<>> THEN
            [st |-> "err", msg |-> "short read from acme/new/ctl"]
        ELSE IF ParseUsize(FirstToken(data)) < 0 THEN
            [st |-> "err", msg |-> "invalid digit found in string"]
        ELSE [st |-> "ok", id |-> ParseUsize(FirstToken(data))]

\* what a read of the new/ctl of window n can return
Replies(n) ==
    { <<SP, SP>> \o Dec(W(n)) \o <<SP>> \o Dec(W(0)) \o <<SP, NL>>,
      Dec(W(n)),
      <<43>> \o Dec(W(n)) \o <<SP>>,
      <<>>,
      <<SP, NL>>,
      <<120>> \o Dec(W(n)) \o <<SP>>,
      <<45>> \o Dec(W(n)) \o <<SP>>,
      Dec(W(n)) \o <<SP, 255>>,
      <<IOERR>> }

\* Drop for Fid: the handles released when the Fids hs go out of scope
DropFid(hs) == hs

\* Win::open borrowing its ctl: the Fids it owns are those it opened
InScope_Borrowed == Range(opened)

\* the Fids Win::new and Win::open own at this point
InScope == (IF ctlh = NoHandle THEN {} ELSE {ctlh}) \cup Range(opened)

\* Win { id, ctl, body, addr, data, tag }
MkWin(id, ctl, fs) ==
    [id |-> id, ctl |-> ctl, body |-> fs[1], addr |-> fs[2], data |-> fs[3], tag |-> fs[4]]

\* an Err leaves Win::new or Win::open: the locals are dropped, the guard
\* of FSYS last
FailNew(msg) ==
    /\ wpc' = "failed"
    /\ err' = msg
    /\ held' = held \ DropFid(InScope)
    /\ released' = released \cup DropFid(InScope)
    /\ ctlh' = NoHandle
    /\ opened' = <<>>
    /\ locked' = FALSE
    /\ win' = NoWin

\* Win::new: let mut fsys = FSYS.lock().unwrap();
NewLock ==
    /\ wpc = "start" /\ ~locked
    /\ locked' = TRUE
    /\ wpc' = "new_ctl"
    /\ UNCHANGED <<checks, wins, held, released, ctlh, idv, opened, win, evars>>
    /\ UNCHANGED <<ovars, lvars>>

\* let mut fid = fsys.open("new/ctl", OpenMode::RDWR)?;
\* the editor makes a window and binds the Fid to its ctl
NewOpenCtl ==
    /\ wpc = "new_ctl"
    /\ \/ /\ \E n \in Ids \ wins :
               /\ \A m \in Ids \ wins : n <= m
               /\ wins' = wins \cup {n}
               /\ ctlh' = H("new", "ctl", n)
               /\ held' = held \cup {H("new", "ctl", n)}
          /\ wpc' = "new_read"
          /\ UNCHANGED <<locked, released, opened, win, err>>
       \/ FailNew("transport") /\ UNCHANGED wins
    /\ UNCHANGED <<checks, idv, feed, recs, tail, stream, pos, pc, e, e3, ngets, wev, written>>
    /\ UNCHANGED <<ovars, lvars>>

\* from fid.read(&mut buf)? to Win::open(&mut fsys, id, fid)
NewRead ==
    /\ wpc = "new_read"
    /\ \E reply \in Replies(ctlh.w) :
        LET r == ParseNew(reply) IN
        IF r.st # "ok" THEN FailNew(r.msg) /\ UNCHANGED idv
        ELSE /\ idv' = r.id
             /\ wpc' = "open_body"
             /\ UNCHANGED <<locked, held, released, ctlh, opened, win, err>>
    /\ UNCHANGED <<checks, wins, feed, recs, tail, stream, pos, pc, e, e3, ngets, wev, written>>
    /\ UNCHANGED <<ovars, lvars>>

\* a caller that holds FSYS calls Win::open(fsys, id, ctl) with the ctl Fid
\* it opened for window id
OpenCall ==
    /\ wpc = "start" /\ ~locked
    /\ \E id \in Ids :
        /\ idv' = id
        /\ ctlh' = H(ToString(id), "ctl", id)
        /\ held' = held \cup {H(ToString(id), "ctl", id)}
    /\ locked' = TRUE
    /\ wpc' = "open_body"
    /\ UNCHANGED <<checks, wins, released, opened, win, evars>>
    /\ UNCHANGED <<ovars, lvars>>

\* the file Win::open opens at wpc, and where it goes next
OpenFile == [open_body |-> "body", open_addr |-> "addr", open_data |-> "data", open_tag |-> "tag"]
OpenNext == [open_body |-> "open_addr", open_addr |-> "open_data", open_data |-> "open_tag",
             open_tag |-> "done"]

\* let f = fsys.open(format!("{}/f", id).as_str(), OpenMode::RDWR)?; after
\* the last one, Ok(Win { .. }); the open fails when the window is gone,
\* and can fail when it is there
OpenStep ==
    /\ wpc \in DOMAIN OpenFile
    /\ \/ /\ idv \in wins
          /\ LET h == H(ToString(idv), OpenFile[wpc], idv) IN
              /\ opened' = Append(opened, h)
              /\ held' = held \cup {h}
              /\ IF OpenNext[wpc] = "done"
                 THEN win' = MkWin(idv, ctlh, Append(opened, h)) /\ locked' = FALSE
                 ELSE UNCHANGED <<win, locked>>
          /\ wpc' = OpenNext[wpc]
          /\ UNCHANGED <<released, ctlh, err>>
       \/ FailNew(IF idv \in wins THEN "transport" ELSE "not found")
    /\ UNCHANGED <<checks, wins, idv, feed, recs, tail, stream, pos, pc, e, e3, ngets, wev, written>>
    /\ UNCHANGED <<ovars, lvars>>

\* Win::events: the event file of the window is opened under FSYS
Events ==
    /\ wpc = "done" /\ pc = "closed" /\ ~locked
    /\ \/ /\ win.id \in wins
          /\ held' = held \cup {H(ToString(win.id), "event", win.id)}
          /\ pc' = "idle"
          /\ err' = ""
       \/ /\ pc' = "noevents"
          /\ err' = IF win.id \in wins THEN "transport" ELSE "not found"
          /\ UNCHANGED held
    /\ UNCHANGED <<checks, wins, wpc, locked, released, ctlh, idv, opened, win,
                   feed, recs, tail, stream, pos, e, e3, ngets, wev, written>>
    /\ UNCHANGED <<ovars, lvars>>

----------------------------------------------------------------------------
(* The operations of Win, each with the calls it makes on its Fids *)

NoOp == [name |-> "none"]

\* one call on a Fid: write(bytes), seek(SeekFrom::Start(0)) or read(buf),
\* bytes the bytes written or read, ok: it returned Ok
Call(o, h, bytes, ok) == [op |-> o, h |-> h, bytes |-> bytes, ok |-> ok]

\* enum File
File == {"ctl", "body", "addr", "data", "tag"}

Foo == <<102, 111, 111>>
Comma == <<44>>
NameSp == <<110, 97, 109, 101, 32>>
Delete == <<100, 101, 108, 101, 116, 101>>
Del == <<100, 101, 108>>

\* the texts a caller passes
Texts == {<<>>, Foo, EAcute}

\* Win::fid choosing ctl whatever the selector
fid_Ctl(w, file) == w.ctl

\* Win::fid: the Fid of the Win that the selector names
fid(w, file) == w[file]

\* Win::write: one write of data.as_bytes() on the Fid selected
write(w, file, data, ok) == <<Call("write", fid(w, file), Utf8Str(data), ok)>>

\* Win::ctl, Win::addr: format!("{}\n", data)
ctl(w, data, ok) == write(w, "ctl", data \o <<NL>>, ok)
addr(w, data, ok) == write(w, "addr", data \o <<NL>>, ok)

\* Win::clear with its two writes exchanged
clear_DataFirst(w, ok1, ok2) ==
    LET a == write(w, "data", <<>>, ok1) IN
    IF ~ok1 THEN a ELSE a \o write(w, "addr", Comma, ok2)

\* Win::clear: the write to addr, and after its `?` the write to data
clear(w, ok1, ok2) ==
    LET a == write(w, "addr", Comma, ok1) IN
    IF ~ok1 THEN a ELSE a \o write(w, "data", <<>>, ok2)

\* format!("name{}", name)
NameCmd_Bare(n) == <<110, 97, 109, 101>> \o n

\* format!("name {}", name)
NameCmd(n) == NameSp \o n

\* Win::name
name(w, n, ok) == ctl(w, NameCmd(n), ok)

\* del's cmd with the two words exchanged
DelCmd_Swapped(sure) == IF sure THEN Del ELSE Delete

\* let cmd = if sure { "delete" } else { "del" };
DelCmd(sure) == IF sure THEN Delete ELSE Del

\* Win::del
del(w, sure, ok) == ctl(w, DelCmd(sure), ok)

\* every call of the operation returned Ok
AllOk(cs) == \A i \in DOMAIN cs : cs[i].ok

\* a write on a Fid of a window that is gone fails; any write can fail
Outcomes == IF win.id \in wins THEN BOOLEAN ELSE {FALSE}

\* let mut buf: [u8; 40] = [0; 40];
ADDR_BUF == 40

\* the text after the first token of b
AfterToken(b) == LET t == SkipSpace(b) IN SubSeq(t, Len(TakeToken(t)) + 1, Len(t))

\* Win::read_addr from the bytes read to its result
ParseAddr(reply) ==
    LET data == SubSeq(reply, 1, IF Len(reply) < ADDR_BUF THEN Len(reply) ELSE ADDR_BUF)
        a0 == FirstToken(data)
        a1 == FirstToken(AfterToken(data))
    IN  IF ~IsUtf8(data) THEN [st |-> "err", msg |-> "invalid utf-8"]
        ELSE IF a0 = <<>> \/ a1 = <<>> THEN [st |-> "err", msg |-> "short read from acme addr"]
        ELSE IF ParseUsize(a0) < 0 \/ ParseUsize(a1) < 0 THEN
            [st |-> "err", msg |-> "invalid digit found in string"]
        ELSE [st |-> "ok", msg |-> "", q0 |-> ParseUsize(a0), q1 |-> ParseUsize(a1)]

\* Win::read_addr: the seek to the start of addr, after its `?` the read,
\* after its `?` the parse
read_addr(w, seekok, reply) ==
    LET sk == Call("seek", fid(w, "addr"), <<>>, seekok)
        rdok == reply = <<>> \/ reply[1] # IOERR
        rd == Call("read", fid(w, "addr"), IF rdok THEN reply ELSE <<>>, rdok)
    IN  IF ~seekok THEN [calls |-> <<sk>>, res |-> [st |-> "err", msg |-> "transport"]]
        ELSE IF ~rdok THEN [calls |-> <<sk, rd>>, res |-> [st |-> "err", msg |-> "transport"]]
        ELSE [calls |-> <<sk, rd>>, res |-> ParseAddr(reply)]

\* what a read of addr can return
AddrReplies ==
    { <<SP, SP>> \o Dec(W(3)) \o <<SP, SP>> \o Dec(W(7)) \o <<SP>>,
      Dec(W(0)) \o <<SP>> \o Dec(W(0)),
      Dec(W(3)),
      <<>>,
      <<120, SP>> \o Dec(W(7)),
      Dec(W(3)) \o <<SP, 121>>,
      Dec(W(3)) \o <<SP>> \o Dec(W(7)) \o <<SP, 255>>,
      <<IOERR>> }

\* an operation on the Win returns msg ("" for Ok), having made the calls cs
WinOp(o, cs, msg) ==
    /\ op' = o @@ [res |-> msg]
    /\ calls' = cs
    /\ err' = msg
    /\ UNCHANGED <<checks, wpc, locked, held, released, ctlh, idv, opened, win,
                   feed, recs, tail, stream, pos, pc, e, e3, ngets, wev, written, lvars>>

Failed(cs) == IF AllOk(cs) THEN "" ELSE "transport"

WinWrite ==
    /\ wpc = "done"
    /\ \E file \in File, data \in Texts, ok \in Outcomes :
        WinOp([name |-> "write", file |-> file, data |-> data],
              write(win, file, data, ok), Failed(write(win, file, data, ok)))
    /\ UNCHANGED wins

WinCtl ==
    /\ wpc = "done"
    /\ \E data \in Texts, ok \in Outcomes :
        WinOp([name |-> "ctl", data |-> data], ctl(win, data, ok), Failed(ctl(win, data, ok)))
    /\ UNCHANGED wins

WinAddr ==
    /\ wpc = "done"
    /\ \E data \in Texts, ok \in Outcomes :
        WinOp([name |-> "addr", data |-> data], addr(win, data, ok), Failed(addr(win, data, ok)))
    /\ UNCHANGED wins

WinClear ==
    /\ wpc = "done"
    /\ \E ok1 \in Outcomes, ok2 \in Outcomes :
        WinOp([name |-> "clear"], clear(win, ok1, ok2), Failed(clear(win, ok1, ok2)))
    /\ UNCHANGED wins

WinName ==
    /\ wpc = "done"
    /\ \E n \in Texts, ok \in Outcomes :
        WinOp([name |-> "name", data |-> n], name(win, n, ok), Failed(name(win, n, ok)))
    /\ UNCHANGED wins

\* Win::del; the editor deletes the window on "delete", and on "del" unless
\* it refuses
WinDel ==
    /\ wpc = "done"
    /\ \E sure \in BOOLEAN, ok \in Outcomes :
        /\ WinOp([name |-> "del", sure |-> sure], del(win, sure, ok), Failed(del(win, sure, ok)))
        /\ \/ ok /\ wins' = wins \ {win.id}
           \/ (~ok \/ ~sure) /\ wins' = wins

WinReadAddr ==
    /\ wpc = "done"
    /\ \E seekok \in Outcomes, reply \in AddrReplies :
        LET r == read_addr(win, seekok, IF win.id \in wins THEN reply ELSE <<IOERR>>) IN
        WinOp([name |-> "read_addr", val |-> r.res], r.calls,
              IF r.res.st = "ok" THEN "" ELSE r.res.msg)
    /\ UNCHANGED wins

----------------------------------------------------------------------------
(* Event::load_text *)

\* a < b for two u32
Less(a, b) == a[1] < b[1] \/ (a[1] = b[1] /\ a[2] < b[2])

\* self.text.len() == 0 && self.q0 < self.q1
Elided(ev) == ev.text = <<>> /\ Less(ev.q0, ev.q1)

\* ev.load_text() on the Event read_event returned: panic!("unimplemented")
\* when the text is elided, nothing otherwise; no call is made on any Fid
LoadText ==
    /\ pc = "ok" /\ feed = "editor" /\ op = NoOp
    /\ op' = [name |-> "load_text", ev |-> e, out |-> e,
              st |-> IF Elided(e) THEN "panic" ELSE "ok"]
    /\ calls' = <<>>
    /\ err' = IF Elided(e) THEN "unimplemented" ELSE ""
    /\ UNCHANGED <<checks, wvars, feed, recs, tail, stream, pos, pc, e, e3, ngets,
                   wev, written, lvars>>

----------------------------------------------------------------------------
(* FSYS: the threads of the process that call the functions opening a file
   of the service, one step per call on the Mutex, the Fsys or a Fid *)

\* most threads of the process
MaxThreads == 2
Threads == 1..MaxThreads

\* the calls of each function, in order: FSYS.lock(), Fsys::open, a read on
\* the Fid opened, the drop of the MutexGuard
Prog ==
    [windows |-> <<"lock", "open", "unlock", "read">>,
     log |-> <<"lock", "open", "unlock">>,
     new |-> <<"lock", "open", "read", "open", "open", "open", "open", "unlock">>,
     events |-> <<"lock", "open", "unlock">>]

NoThreads ==
    /\ tprog = <<>>
    /\ tpc = <<>>
    /\ guard = 0
    /\ inopen = {}
    /\ lockio = {}

\* thread t goes on to its next call
Step(t) == tpc' = [tpc EXCEPT ![t] = Tail(tpc[t])]

\* `?` on an Err: thread t leaves the function, its MutexGuard is dropped
Return(t) ==
    /\ tpc' = [tpc EXCEPT ![t] = <<>>]
    /\ guard' = IF guard = t THEN 0 ELSE guard

\* FSYS.lock().unwrap(): blocks while another thread holds the guard
Lock ==
    /\ \E t \in Threads :
        /\ tpc[t] # <<>> /\ Head(tpc[t]) = "lock"
        /\ guard = 0
        /\ guard' = t
        /\ Step(t)
    /\ UNCHANGED <<checks, wvars, evars, ovars, tprog, inopen, lockio>>

\* the call of Fsys::open
OpenBegin ==
    /\ \E t \in Threads :
        /\ tpc[t] # <<>> /\ Head(tpc[t]) = "open"
        /\ inopen' = inopen \cup {t}
        /\ tpc' = [tpc EXCEPT ![t] = <<"opening">> \o Tail(tpc[t])]
    /\ UNCHANGED <<checks, wvars, evars, ovars, tprog, guard, lockio>>

\* the return of Fsys::open, Ok or Err
OpenEnd ==
    /\ \E t \in Threads :
        /\ tpc[t] # <<>> /\ Head(tpc[t]) = "opening"
        /\ inopen' = inopen \ {t}
        /\ \/ Step(t) /\ UNCHANGED guard
           \/ Return(t)
    /\ UNCHANGED <<checks, wvars, evars, ovars, tprog, lockio>>

\* a read on the Fid opened, Ok or Err
FidRead ==
    /\ \E t \in Threads :
        /\ tpc[t] # <<>> /\ Head(tpc[t]) = "read"
        /\ lockio' = IF guard = t THEN lockio \cup {<<t, tprog[t]>>} ELSE lockio
        /\ \/ Step(t) /\ UNCHANGED guard
           \/ Return(t)
    /\ UNCHANGED <<checks, wvars, evars, ovars, tprog, inopen>>

\* the MutexGuard goes out of scope
Unlock ==
    /\ \E t \in Threads :
        /\ tpc[t] # <<>> /\ Head(tpc[t]) = "unlock"
        /\ guard' = 0
        /\ Step(t)
    /\ UNCHANGED <<checks, wvars, evars, ovars, tprog, inopen, lockio>>

----------------------------------------------------------------------------

\* the Fids of window id opened at its own files
Own(id, file) == H(ToString(id), file, id)

\* The window: nothing is constructed yet
InitWin ==
    /\ checks = FALSE
    /\ wins \in SUBSET Ids
    /\ wpc = "start"
    /\ locked = FALSE
    /\ held = {}
    /\ released = {}
    /\ ctlh = NoHandle
    /\ idv = 0
    /\ opened = <<>>
    /\ win = NoWin
    /\ feed = "none"
    /\ recs = <<>>
    /\ tail = NoTail
    /\ stream = <<>>
    /\ pos = 0
    /\ pc = "closed"
    /\ e = NoEvent
    /\ e3 = NoEvent
    /\ ngets = 0
    /\ err = ""
    /\ wev = NoEvent
    /\ written = <<>>
    /\ op = NoOp
    /\ calls = <<>>
    /\ NoThreads

NextWin ==
    \/ NewLock
    \/ NewOpenCtl
    \/ NewRead
    \/ OpenCall
    \/ OpenStep
    \/ Events
    \/ WinWrite
    \/ WinCtl
    \/ WinAddr
    \/ WinClear
    \/ WinName
    \/ WinDel
    \/ WinReadAddr

SpecWin == InitWin /\ [][NextWin]_vars

\* The event file: window 1 is attached and its events() has returned
Init ==
    /\ checks \in BOOLEAN
    /\ wins = {1}
    /\ wpc = "done"
    /\ locked = FALSE
    /\ held = {Own(1, f) : f \in {"ctl", "body", "addr", "data", "tag", "event"}}
    /\ released = {}
    /\ ctlh = Own(1, "ctl")
    /\ idv = 1
    /\ opened = <<Own(1, "body"), Own(1, "addr"), Own(1, "data"), Own(1, "tag")>>
    /\ win = MkWin(1, ctlh, opened)
    /\ feed = "none"
    /\ recs = <<>>
    /\ tail = NoTail
    /\ stream = <<>>
    /\ pos = 0
    /\ pc = "idle"
    /\ e = NoEvent
    /\ e3 = NoEvent
    /\ ngets = 0
    /\ err = ""
    /\ wev = NoEvent
    /\ written = <<>>
    /\ op = NoOp
    /\ calls = <<>>
    /\ NoThreads

Next ==
    \/ Feed
    \/ ReadFirst
    \/ ReadExpansion
    \/ ReadChordArg
    \/ ReadChordLoc
    \/ WriteEvent
    \/ Loopback
    \/ LoadText

Spec == Init /\ [][Next]_vars

\* The threads: each is about to call one of the four functions
InitLock ==
    /\ checks = FALSE
    /\ wins = {}
    /\ wpc = "start"
    /\ locked = FALSE
    /\ held = {}
    /\ released = {}
    /\ ctlh = NoHandle
    /\ idv = 0
    /\ opened = <<>>
    /\ win = NoWin
    /\ feed = "none"
    /\ recs = <<>>
    /\ tail = NoTail
    /\ stream = <<>>
    /\ pos = 0
    /\ pc = "closed"
    /\ e = NoEvent
    /\ e3 = NoEvent
    /\ ngets = 0
    /\ err = ""
    /\ wev = NoEvent
    /\ written = <<>>
    /\ op = NoOp
    /\ calls = <<>>
    /\ tprog \in [Threads -> DOMAIN Prog]
    /\ tpc = [t \in Threads |-> Prog[tprog[t]]]
    /\ guard = 0
    /\ inopen = {}
    /\ lockio = {}

NextLock ==
    \/ Lock
    \/ OpenBegin
    \/ OpenEnd
    \/ FidRead
    \/ Unlock

SpecLock == InitLock /\ [][NextLock]_vars

----------------------------------------------------------------------------
(* The records of the event file as read_event meets them *)

\* the k-th raw record on the event file: the well-formed ones, then the
\* one of the tail
RawAt(k) == IF k <= Len(recs) THEN recs[k] ELSE tail.raw

\* byte offset of the end of the k-th raw record
End(k) == IF k <= Len(recs) THEN Off(k) ELSE Len(stream)

\* the event file holds k whole raw records at least
Holds(k) == k <= Len(recs) \/ (k = Len(recs) + 1 /\ "raw" \in DOMAIN tail)

\* read_event has consumed exactly the first k raw records
Consumed(k) == Holds(k) /\ pos = End(k)

\* the base decode of the k-th raw record
Base(k) == get_event(stream, End(k - 1), checks).ev

\* read_event has returned Ok on records of the editor
Returned == feed = "editor" /\ pc = "ok"

\* 1 if the bit is set in the flag field of the first raw record, else 0
Bit2 == IF BitSet(RawAt(1).flag, 2) THEN 1 ELSE 0
Bit8 == IF BitSet(RawAt(1).flag, 8) THEN 1 ELSE 0

----------------------------------------------------------------------------
(* C1 *)

\* C1 as stated: a read_event that returns Ok has consumed 1, 2 or 4 raw
\* records, never 3.
C1_OneTwoFour == Returned => (Consumed(1) \/ Consumed(2) \/ Consumed(4))

\* C1 amended: a read_event that returns Ok has consumed 1 raw record, plus 1
\* if bit 2 of the first record's flag is set, plus 2 if its bit 8 is set:
\* 1, 2, 3 or 4 records, each by one get_event, never more than 4.
C1_Records ==
    Returned => /\ Consumed(1 + Bit2 + 2 * Bit8)
                /\ ngets = 1 + Bit2 + 2 * Bit8
                /\ ngets <= 4

\* a read_event returns Ok after three records, with more on the file
C1_Witness == Returned /\ Consumed(3) /\ Bit8 = 1 /\ Bit2 = 0 /\ Len(stream) > pos

----------------------------------------------------------------------------
(* C2 *)

\* the first record asks for expansion with start = end, with start # end
Collapsed == BitSet(Base(1).flag, 2) /\ Base(1).q0 = Base(1).q1
Spread == BitSet(Base(1).flag, 2) /\ Base(1).q0 # Base(1).q1

\* the result has orig_q0, orig_q1 and flag of R1 and the rest of R2
FromSecond ==
    /\ e.orig_q0 = Base(1).q0 /\ e.orig_q1 = Base(1).q1 /\ e.flag = Base(1).flag
    /\ e.text = RawAt(2).text /\ e.text = Base(2).text
    /\ e.c1 = Base(2).c1 /\ e.c2 = Base(2).c2
    /\ e.q0 = Base(2).q0 /\ e.q1 = Base(2).q1 /\ e.nr = Base(2).nr

\* C2 as stated: when R1 has flag bit 2 and start = end, read_event consumes
\* exactly two raw records and returns R2 with orig_q0, orig_q1, flag of R1.
C2_ExactlyTwo == (Returned /\ Collapsed) => (Consumed(2) /\ FromSecond)

\* C2 amended: when R1 has flag bit 2 and start = end, read_event consumes
\* exactly two raw records if bit 8 of R1's flag is clear and exactly four if
\* it is set; the result has orig_q0, orig_q1, flag of R1 and c1, c2, q0, q1,
\* nr, text of R2.
C2_Expansion ==
    (Returned /\ Collapsed) => (Consumed(2 + 2 * Bit8) /\ ngets = 2 + 2 * Bit8 /\ FromSecond)

\* an expansion with start = end has returned R2, whose start, end and flag
\* differ from R1's
C2_Witness ==
    /\ Returned /\ Collapsed /\ Consumed(2)
    /\ e.q0 # e.orig_q0 /\ e.flag # Base(2).flag /\ e.text # Base(1).text

----------------------------------------------------------------------------
(* C3 *)

\* C3 as stated: when R1 has flag bit 2 and start # end, read_event consumes
\* exactly two raw records and returns the base decode of R1.
C3_Verbatim == (Returned /\ Spread) => (Consumed(2) /\ e = Base(1))

\* C3 amended: when R1 has flag bit 2 and start # end, then with bit 8 of
\* R1's flag clear read_event consumes exactly two raw records and returns
\* the base decode of R1; with bit 8 set it consumes exactly four and returns
\* the base decode of R1 with arg and loc the texts of R3 and R4.  Nothing of
\* R2 is in the result.
C3_Drained ==
    (Returned /\ Spread) =>
        IF Bit8 = 0 THEN Consumed(2) /\ ngets = 2 /\ e = Base(1)
        ELSE /\ Consumed(4) /\ ngets = 4
             /\ e = [Base(1) EXCEPT !.arg = RawAt(3).text, !.loc = RawAt(4).text]

\* an expansion with start # end has returned R1 after draining an R2 that
\* differs from it in every field
C3_Witness ==
    /\ Returned /\ Spread /\ Consumed(2) /\ Bit8 = 0
    /\ \A f \in {"c1", "c2", "q0", "q1", "flag", "nr", "text"} : Base(2)[f] # Base(1)[f]

----------------------------------------------------------------------------
(* C4 *)

\* read_event's event before the chorded-argument block
Assembled ==
    IF Bit2 = 0 \/ Spread THEN Base(1)
    ELSE [Base(2) EXCEPT !.orig_q0 = Base(1).q0, !.orig_q1 = Base(1).q1,
                         !.flag = Base(1).flag]

\* C4: with bit 8 set in the flag of the (possibly replaced) record,
\* read_event consumes exactly two raw records R3, R4 after the base ones,
\* arg is the text of R3, loc the text of R4, and the other fields are as
\* before; with bit 8 clear, arg and loc are empty.
C4_Chorded ==
    Returned =>
        IF BitSet(Assembled.flag, 8)
        THEN /\ Consumed(1 + Bit2 + 2) /\ ngets = 1 + Bit2 + 2
             /\ e.arg = RawAt(1 + Bit2 + 1).text
             /\ e.loc = RawAt(1 + Bit2 + 2).text
             /\ [e EXCEPT !.arg = <<>>, !.loc = <<>>] = Assembled
        ELSE /\ Consumed(1 + Bit2)
             /\ e.arg = <<>> /\ e.loc = <<>>

\* a chorded event has returned with arg and loc two different texts, after
\* an expansion that replaced the record
C4_Witness ==
    /\ Returned /\ Collapsed /\ BitSet(e.flag, 8) /\ Consumed(4)
    /\ e.arg # <<>> /\ e.loc # <<>> /\ e.arg # e.loc /\ e.arg # e.text

----------------------------------------------------------------------------
(* C5 *)

\* the first raw record was decoded and its flag has neither bit 2 nor bit 8
Plain ==
    /\ feed = "editor" /\ pc # "idle"
    /\ get_event(stream, 0, checks).st = "ok"
    /\ Bit2 = 0 /\ Bit8 = 0

\* C5: when the flag of the first raw record has neither bit 2 nor bit 8,
\* read_event returns having consumed exactly one raw record, the stream
\* positioned just after that record's newline.
C5_One ==
    Plain => /\ pc = "ok" /\ ngets = 1
             /\ Consumed(1)
             /\ stream[pos] = NL
             /\ pos = Len(Wire(RawAt(1)))

\* such a read_event has returned with other flag bits set and records left
\* on the file
C5_Witness == Plain /\ pc = "ok" /\ e.flag = W(1) /\ Len(recs) > 1 /\ Len(stream) > pos

----------------------------------------------------------------------------
(* C6, C7 *)

\* read_event has read into the raw record of the tail
InTail == feed = "editor" /\ pos > Off(Len(recs))

\* the field of the tail's raw record that no space follows
BadField == CHOOSE k \in 1..4 : tail.raw.seps[k] # SP

\* C6: a raw record whose count is above EVENT_SIZE makes the decode fail
\* with the stream positioned just after the space that ends the count: no
\* character of the text is read, no Event is returned.
C6_Oversize ==
    (InTail /\ tail.kind = "oversize") =>
        /\ pc = "err" /\ err = "event size too long"
        /\ e = NoEvent /\ e3 = NoEvent
        /\ pos = Off(Len(recs)) + Len(Fields(tail.raw, 4))
        /\ stream[pos] = SP
        /\ Len(stream) > pos

\* the decode of a third record has failed on a count of EVENT_SIZE + 1
C6_Witness ==
    /\ InTail /\ tail.kind = "oversize" /\ pc = "err"
    /\ Len(recs) = 2 /\ tail.raw.nr = W(EVENT_SIZE + 1)

\* the decode has read the character after the digits of that field
BadRead == feed = "editor" /\ pos >= Off(Len(recs)) + Len(Fields(tail.raw, BadField))

\* C7: in each of the four numeric fields, a character after the digits
\* that is no digit and no space makes the decode fail with the number
\* syntax error at that character, and no Event is returned.
C7_Syntax ==
    (tail.kind = "badsep" /\ BadRead) =>
        /\ pc = "err" /\ err = "event number syntax"
        /\ e = NoEvent /\ e3 = NoEvent
        /\ pos = Off(Len(recs)) + Len(Fields(tail.raw, BadField))

\* the decode of a second record has failed on a newline after its count
C7_Witness ==
    /\ tail.kind = "badsep" /\ BadRead /\ pc = "err"
    /\ Len(recs) = 1 /\ BadField = 4 /\ stream[pos] = NL

----------------------------------------------------------------------------
(* C8, C9 *)

\* C8: the bytes write_event writes for an Event, completed into a raw
\* record with flag 0 and count 0, decode through read_event to an Event with
\* the same c1, c2, q0, q1.
C8_RoundTrip ==
    (feed = "loopback" /\ pc \in {"ok", "err", "panic"}) =>
        /\ pc = "ok"
        /\ e.c1 = wev.c1 /\ e.c2 = wev.c2
        /\ e.q0 = wev.q0 /\ e.q1 = wev.q1

\* C9: the base decode of a well-formed raw record with flag 0 is the Event
\* with c1, c2, q0, q1, flag, nr, text of the wire, text of nr characters,
\* orig_q0/orig_q1 = q0/q1, arg and loc empty.
C9_BaseDecode ==
    (feed = "editor" /\ pc # "idle" /\ recs # <<>> /\ recs[1].flag = W(0)) =>
        /\ pc = "ok"
        /\ e = MkEvent(recs[1].c1, recs[1].c2, recs[1].q0, recs[1].q1,
                       recs[1].flag, recs[1].nr, recs[1].text)
        /\ Len(e.text) = e.nr[2] /\ e.nr[1] = 0
        /\ e.orig_q0 = e.q0 /\ e.orig_q1 = e.q1
        /\ e.arg = <<>> /\ e.loc = <<>>

----------------------------------------------------------------------------
(* C10 *)

\* the five handles of a Win
Handles(w) == {w.ctl, w.body, w.addr, w.data, w.tag}

\* C10: when Win::new or Win::open fails, every handle opened or supplied
\* in the attempt is released, the error is returned and there is no Win;
\* a Win exists only once construction has succeeded, and then it holds the
\* five handles ctl, body, addr, data, tag of the window of its id, all open.
C10_AllOrNothing ==
    /\ wpc = "failed" => /\ held = {} /\ win = NoWin /\ err # ""
                         /\ InScope = {} /\ ~locked
    /\ win # NoWin => wpc = "done"
    /\ wpc = "done" =>
        /\ win # NoWin
        /\ win.id = idv
        /\ win.ctl.file = "ctl"
        /\ \A f \in {"body", "addr", "data", "tag"} : win[f] = Own(win.id, f)
        /\ \A h \in Handles(win) : h.w = win.id
        /\ Handles(win) \subseteq held
        /\ Handles(win) \cap released = {}
        /\ Cardinality(Handles(win)) = 5

\* Win::new has failed at the open of tag: new/ctl and the three files
\* opened before it are released
C10_Witness ==
    /\ wpc = "failed" /\ held = {}
    /\ \E n \in Ids : released = {H("new", "ctl", n), Own(n, "body"), Own(n, "addr"),
                                    Own(n, "data")}

\* Win::new has returned a Win
C10_WitnessDone == wpc = "done" /\ win # NoWin /\ win.ctl.dir = "new"

----------------------------------------------------------------------------
(* C11 *)

\* the address expression of the literal range [q0, q1), as a line
AddrRange(q0, q1) == <<35>> \o Dec(q0) \o <<44, 35>> \o Dec(q1) \o <<NL>>

\* C11: load_text on an event with empty text and q0 < q1 returns normally
\* after one write to addr of the literal range [q0, q1) and a read of data
\* whose content becomes the text; on every other event it returns with
\* every field of the event unchanged.
C11_LoadText ==
    op.name = "load_text" =>
        IF Elided(op.ev)
        THEN /\ op.st = "ok"
             /\ Len(calls) = 2
             /\ calls[1] = Call("write", win.addr, AddrRange(op.ev.q0, op.ev.q1), TRUE)
             /\ calls[2].op = "read" /\ calls[2].h = win.data /\ calls[2].ok
             /\ op.out = [op.ev EXCEPT !.text = calls[2].bytes]
        ELSE op.st = "ok" /\ op.out = op.ev /\ calls = <<>>

----------------------------------------------------------------------------
(* C12 *)

\* every thread inside Fsys::open holds the MutexGuard, so there is one at
\* most
Serialized == (\A t \in inopen : guard = t) /\ Cardinality(inopen) <= 1

\* C12: every open() of WinInfo::windows, LogReader::new, Win::new and
\* Win::events runs while its thread holds the FSYS mutex, no two of them
\* overlap, and no read on an open handle is made by a thread that holds
\* the mutex.
C12_LockScope == Serialized /\ lockio = {}

----------------------------------------------------------------------------
(* C13 *)

\* the handle of the Win's window for a resource: its ctl, wherever it was
\* opened, and the four files Win::open opened
Resource(file) == IF file = "ctl" THEN win.ctl ELSE Own(win.id, file)

\* C13: clear() first writes "," to the addr resource and then, only if that
\* write returned Ok, writes the empty text to the data resource; when the
\* addr write fails clear() returns that error and no call is made on data.
C13_ClearOrder ==
    op.name = "clear" =>
        /\ Len(calls) >= 1
        /\ calls[1] = Call("write", Resource("addr"), <<44>>, calls[1].ok)
        /\ IF calls[1].ok
           THEN /\ Len(calls) = 2
                /\ calls[2] = Call("write", Resource("data"), <<>>, calls[2].ok)
                /\ (op.res = "") = calls[2].ok
           ELSE /\ Len(calls) = 1
                /\ op.res # ""
                /\ \A i \in DOMAIN calls : calls[i].h # Resource("data")

\* a clear() whose write to addr failed on a window that is there
C13_Witness ==
    /\ op.name = "clear" /\ win.id \in wins
    /\ Len(calls) = 1 /\ ~calls[1].ok /\ calls[1].h.file = "addr"

----------------------------------------------------------------------------
(* C14 *)

\* C14: del(true) makes one call, the write of the bytes "delete\n" on the
\* control resource, and del(false) one call, the write of "del\n" on the
\* control resource.
C14_Del ==
    op.name = "del" =>
        /\ Len(calls) = 1
        /\ calls[1].op = "write"
        /\ calls[1].h = Resource("ctl")
        /\ calls[1].h.file = "ctl" /\ calls[1].h.w = win.id
        /\ calls[1].bytes = IF op.sure THEN <<100, 101, 108, 101, 116, 101, 10>>
                                        ELSE <<100, 101, 108, 10>>

\* a del(true) whose write returned Ok, the window is gone
C14_Witness ==
    /\ op.name = "del" /\ op.sure /\ calls[1].ok /\ win.id \notin wins
    /\ calls[1].bytes = <<100, 101, 108, 101, 116, 101, 10>>

----------------------------------------------------------------------------
(* C15 *)

\* C15: name(t) makes one call, the write on the control resource of the
\* bytes "name " followed by the bytes of t and a newline; name("foo")
\* writes "name foo\n".
C15_Name ==
    op.name = "name" =>
        /\ Len(calls) = 1
        /\ calls[1].op = "write"
        /\ calls[1].h = Resource("ctl")
        /\ calls[1].h.file = "ctl" /\ calls[1].h.w = win.id
        /\ calls[1].bytes = <<110, 97, 109, 101, 32>> \o Utf8Str(op.data) \o <<10>>
        /\ op.data = <<102, 111, 111>> =>
                calls[1].bytes = <<110, 97, 109, 101, 32, 102, 111, 111, 10>>

\* a name("foo") whose write returned Ok on a Win that Win::new made
C15_Witness ==
    /\ op.name = "name" /\ op.data = <<102, 111, 111>> /\ calls[1].ok
    /\ win.ctl.dir = "new"

----------------------------------------------------------------------------
(* C16 *)

\* the last operation was write(file, data): one call, the write of the
\* bytes of data and no more on the handle the selector names
WriteOne ==
    op.name = "write" =>
        /\ Len(calls) = 1
        /\ calls[1].op = "write"
        /\ calls[1].h = Resource(op.file)
        /\ calls[1].h.file = op.file /\ calls[1].h.w = win.id
        /\ calls[1].bytes = Utf8Str(op.data)
        /\ \A f \in File \ {op.file} : calls[1].h # Resource(f)

\* C16: write(selector, text) writes the bytes of text, nothing appended,
\* on the one handle the selector names and makes no call on the other
\* four; no step of write, ctl, addr, clear, name, del, read_addr or events
\* changes the id of the Win.
C16_WriteFrame ==
    /\ []WriteOne
    /\ [][win # NoWin => (win' # NoWin /\ win'.id = win.id /\ idv' = idv)]_vars

\* a write(Data, "é") that returned Ok after events() was called
C16_Witness ==
    /\ op.name = "write" /\ op.file = "data" /\ op.data = <<233>>
    /\ calls[1].ok /\ calls[1].bytes = <<195, 169>> /\ pc = "idle"

----------------------------------------------------------------------------
(* C17 *)

\* C17: every event read_event returns, on each of its paths, has orig_q0
\* and orig_q1 equal to the q0 and q1 decoded from the first raw record R1,
\* which are the numbers of R1 on the wire when these are values of u32.
C17_Orig ==
    Returned =>
        /\ e.orig_q0 = Base(1).q0 /\ e.orig_q1 = Base(1).q1
        /\ Fits32(RawAt(1).q0) => e.orig_q0 = RawAt(1).q0
        /\ Fits32(RawAt(1).q1) => e.orig_q1 = RawAt(1).q1

\* an expansion with start = end and the chorded records has returned: the
\* event is R2 with an address other than R1's, orig_q0 and orig_q1 are R1's
C17_Witness ==
    /\ Returned /\ Collapsed /\ Consumed(4)
    /\ e.q0 # e.orig_q0 /\ e.q1 # e.orig_q1
    /\ e.orig_q0 = RawAt(1).q0 /\ e.q0 = RawAt(2).q0

----------------------------------------------------------------------------
(* C18 *)

\* read_event has returned an Err on records of the editor
Errored == feed = "editor" /\ pc = "err"

\* the start of the raw record whose decode failed: the one after the
\* ngets records decoded
FailStart == End(ngets)

\* the record whose decode failed is one of the well-formed records, the
\* record of the tail, or lies past the end of the event file
FailInRecs == ngets < Len(recs)
FailInTail == ngets = Len(recs) /\ tail.kind # "none"

\* where the decode of raw record r starting at byte p stops when r holds
\* more bytes of text than its count: at the byte after the count's bytes
PhaseAt(p, r) == p + Len(Fields(r, 4)) + r.nr[2] + 1

\* C18: when the decode of a raw record fails, the 1st to the 4th of the
\* call, read_event returns the error of that decode with the stream at the
\* failing byte and nothing read after it, and returns no Event: at the end
\* of input the stream is at its end, at a failed read before the byte not
\* read, at a number's bad terminator, an oversized count's space or the
\* byte found in place of the newline just after it.
C18_Terminal ==
    Errored =>
        /\ e = NoEvent /\ e3 = NoEvent
        /\ ngets <= 3
        /\ pos <= Len(stream)
        /\ IF FailInRecs THEN
               /\ err = "phase error"
               /\ pos = PhaseAt(FailStart, recs[ngets + 1])
           ELSE IF ~FailInTail \/ tail.kind = "cut" THEN
               /\ err = "expected another character"
               /\ pos = Len(stream)
           ELSE IF tail.kind = "ioerr" THEN
               /\ err = "transport"
               /\ pos = Len(stream) - 1 /\ stream[pos + 1] = IOERR
           ELSE IF tail.kind = "badsep" THEN
               /\ err = "event number syntax"
               /\ pos = FailStart + Len(Fields(tail.raw, BadField))
           ELSE IF tail.kind = "oversize" THEN
               /\ err = "event size too long"
               /\ pos = FailStart + Len(Fields(tail.raw, 4))
           ELSE /\ tail.kind = "phase"
                /\ err = "phase error"
                /\ pos = PhaseAt(FailStart, tail.raw)

\* the decode of the 4th record of a call has failed on a byte that is not
\* the newline, with bytes left on the event file
C18_Witness ==
    /\ Errored /\ ngets = 3 /\ FailInTail /\ tail.kind = "phase"
    /\ Len(stream) > pos

----------------------------------------------------------------------------
(* C19 *)

\* C19: the numbers get_en returns for the fields of a raw record are the
\* decimal values of their digit runs, also for values of 2^32 and more,
\* without wrapping and without a panic; a count whose value is above
\* EVENT_SIZE is never accepted.
C19_NoWrap ==
    /\ (feed = "editor" /\ pc # "idle" /\ Holds(1)) =>
            LET r == get_event(stream, 0, checks) IN
            /\ r.st # "panic"
            /\ r.st = "ok" =>
                    /\ r.ev.q0 = RawAt(1).q0 /\ r.ev.q1 = RawAt(1).q1
                    /\ r.ev.flag = RawAt(1).flag /\ r.ev.nr = RawAt(1).nr
    /\ (InTail /\ tail.kind = "wrapped") =>
            /\ pc = "err" /\ err = "event size too long"
            /\ pos = Off(Len(recs)) + Len(Fields(tail.raw, 4))

----------------------------------------------------------------------------
(* C20 *)

\* a read_event is under way
Reading ==
    \/ pc = "idle" /\ feed # "none"
    \/ pc \in {"expansion", "chorded_arg", "chorded_loc"}

\* the get_event calls read_event has still to make at most
Left ==
    CASE pc = "idle" -> 4
      [] pc = "expansion" -> 3
      [] pc = "chorded_arg" -> 2
      [] pc = "chorded_loc" -> 1
      [] OTHER -> 0

\* the outcome of the next get_event call of read_event
NextGet == get_event(stream, pos, checks)

\* the texts read_event holds
TextsHeld ==
    (IF e = NoEvent THEN {} ELSE {e.text, e.arg, e.loc})
    \cup (IF e3 = NoEvent THEN {} ELSE {e3.text})

\* C20: the next get_event call of a read_event under way ends, with an
\* Event or an error, each call brings read_event nearer to its end, which
\* it reaches after four calls at most whatever the flags of the 2nd, 3rd
\* and 4th record, returning an Event or an error; no get_event reads more
\* than EVENT_SIZE characters of text.
C20_Terminates ==
    /\ [](/\ Reading =>
                /\ NextGet.st \in {"ok", "err"}
                /\ NextGet.pos >= pos /\ NextGet.pos <= Len(stream)
                /\ NextGet.st = "ok" => Len(NextGet.ev.text) <= EVENT_SIZE
          /\ ngets + Left <= 4
          /\ ~Reading => pc \in {"ok", "err", "wrote", "werr", "idle"}
          /\ \A t \in TextsHeld : Len(t) <= EVENT_SIZE)
    /\ [][Reading => /\ Left' < Left
                     /\ ngets' <= ngets + 1
                     /\ pos' >= pos]_vars

====
